---- MODULE Spec2Model ----
(***************************************************************************)
(* Outcomes analytics engine of the recovery-tracking application          *)
(* (src/src/lib/analytics.ts) together with the storage it reads and       *)
(* writes (src/supabase/migrations).                                       *)
(* Its consumers and its producer are modelled with it: the analytics     *)
(* cards and the insight list of the Home and Progress pages               *)
(* (src/src/pages) and the ODI questionnaire                               *)
(* (src/src/components/ODIAssessment.tsx).                                 *)
(*                                                                         *)
(* Conventions of the model                                                *)
(*  - A calendar date ('YYYY-MM-DD', a Postgres date column) is a day      *)
(*    number; new Date(date).getTime() is that day's UTC midnight in       *)
(*    milliseconds (getTime).  The clock `now` is in milliseconds.         *)
(*  - A JavaScript number | null is a tagged record: Null, Number(v),      *)
(*    Fraction(n, d) for a quotient, NaN, PosInfinity, NegInfinity.        *)
(*    Quotients are kept exact (floating-point rounding is not modelled).  *)
(*  - A Pearson coefficient numerator / sqrt(A * B) is kept as its sign    *)
(*    and the exact fraction numerator^2 / (A * B).                        *)
(***************************************************************************)
EXTENDS Integers, Sequences, FiniteSets, TLC

VARIABLES
    odiTable,    \* rows of odi_assessments of the patient, in insertion order
    vasTable,    \* rows of vas_pain_scores of the patient
    metrics,     \* rows of analytics_metrics of the patient
    now,         \* the clock, milliseconds
    pc,          \* position of the calculateAnalytics call
    odiFetch,    \* state of fetchODIAssessments: "none", "pending", "ok", "error"
    vasFetch,    \* state of fetchVASScores: "none", "pending", "ok", "error"
    odiData,     \* the array fetchODIAssessments resolved with
    vasData,     \* the array fetchVASScores resolved with
    result,      \* the AnalyticsResult built by the call
    upsertReq,   \* the row handed to upsert by saveAnalytics
    saveOutcome, \* how the upsert ended
    logged,      \* console.error messages emitted by the current call
    benchTable,  \* rows of population_benchmarks
    benchPc,     \* position of the getBenchmarkComparison call
    benchArgs,   \* its arguments
    benchData,   \* the row its query resolved with, Null for none
    benchResult, \* the value it returned
    currentSection, \* questionnaire: index of the section on screen
    responses,      \* questionnaire: the answers given, by section index
    saving,         \* questionnaire: an insert is under way
    assessmentData, \* questionnaire: the row handed to insert, Null for none
    alerted,        \* questionnaire: messages shown by alert
    showODIAssessment, \* the questionnaire is on screen
    clicks,         \* questionnaire: answers, Next and Back presses so far
    homePc,         \* Home: "unmounted", "loading" (loading = true), "loaded"
    latestODI,      \* Home state
    previousODI,    \* Home state
    homeAnalytics,  \* Home state `analytics`
    daysPostTreatment, \* Home state
    insights,       \* Home state
    loads,          \* Home: state of loadODIData, loadAnalytics, loadAppointments
    closure,        \* Home: the state values the running loadDashboardData sees
    reloads         \* Home: how often the user object changed after mounting

benchVars == <<benchTable, benchPc, benchArgs, benchData, benchResult>>

questionnaireVars == <<currentSection, responses, saving, assessmentData, alerted,
                       showODIAssessment, clicks>>

homeVars == <<homePc, latestODI, previousODI, homeAnalytics, daysPostTreatment, insights,
              loads, closure, reloads>>

uiVars == <<questionnaireVars, homeVars>>

vars == <<odiTable, vasTable, metrics, now, pc, odiFetch, vasFetch, odiData,
          vasData, result, upsertReq, saveOutcome, logged, benchVars, uiVars>>

(***************************************************************************)
(* Program constants                                                       *)
(***************************************************************************)
ODI_MCID_THRESHOLD == 10

MsPerDay == 86400000

MsPerWeek == 604800000

DaysPerWeek == 7

RecentWindow == 4

PlateauThreshold == 5

MaxGapDays == 3

VasScale == 10

MinPairs == 3

(***************************************************************************)
(* Bounds of the model                                                     *)
(***************************************************************************)
MaxLen == 4      \* longest assessment series drawn for the pure functions

MaxRows == 3     \* most rows of odi_assessments in the call protocol

MaxDay == 1      \* the clock of the call protocol runs over days 0..MaxDay

\* Dates, scores and flags the pure functions are applied to.  The scores
\* make differences of 1, 5, 9, 10, 14 and 15 points occur.
FnDates == {0, 7, 21}

FnScores == {50, 51, 60, 65}

FnNow == 22 * MsPerDay + MsPerDay \div 2

MaxSeriesLen == 5   \* longest series drawn for the windowed functions

\* Scores of those series: percentage_score is twice the section total.
SeriesScores == {50, 52, 60, 64}

MaxPainOdi == 4     \* longest assessment series drawn for the correlation

MaxPainVas == 3     \* longest pain series drawn for the correlation

\* Dates and values of those series.  An assessment of day 7 has the readings
\* of days 4 and 10 three days away, one of day 0 has the reading of day 4
\* four days away, one of day 13 the reading of day 10 three days away.
\* pain_score is an integer of 0..10.
PainOdiDates == {0, 3, 7, 13}

PainOdiScores == {40, 50, 60}

PainVasDates == {0, 4, 10}

PainScores == {4, 5, 6}

MaxWeeks == 24      \* getBenchmarkComparison is called for weeks -1..MaxWeeks

\* Scores getBenchmarkComparison is called with: on, below and above the band
\* boundaries of the seeded rows.
BenchScores == {12, 14, 18, 20, 24, 26, 40, 48, 50, 58, 66, 74, 76}

\* Clocks of a call on a drawn series: noon of day 3, which an assessment
\* dated 7 or 21 lies after (assessment_date is written from the submitting
\* client's clock and the owner may update the row), and noon of day 22.
SeriesClocks == {3 * MsPerDay + MsPerDay \div 2, FnNow}

\* The clock of the call protocol starts at noon of day 0.
StartOfRun == MsPerDay \div 2

\* Section totals (0..50) submitted through the questionnaire.
SectionTotals == {25, 30}

\* Contents of vas_pain_scores: the application never writes the table.
VasSamples ==
    { << >>,
      << [recorded_date |-> 0, pain_score |-> 5],
         [recorded_date |-> 0, pain_score |-> 7],
         [recorded_date |-> 1, pain_score |-> 6] >> }

FnVasSamples ==
    { << [recorded_date |-> 0, pain_score |-> 4],
         [recorded_date |-> 8, pain_score |-> 6],
         [recorded_date |-> 21, pain_score |-> 7] >> }

(***************************************************************************)
(* Values                                                                  *)
(***************************************************************************)
Null == [kind |-> "null"]

Number(v) == [kind |-> "number", value |-> v]

NaN == [kind |-> "NaN"]

PosInfinity == [kind |-> "Infinity"]

NegInfinity == [kind |-> "-Infinity"]

Abs(x) == IF x < 0 THEN -x ELSE x

Sign(x) == IF x < 0 THEN -1 ELSE IF x > 0 THEN 1 ELSE 0

RECURSIVE GCD(_, _)
GCD(a, b) == IF b = 0 THEN a ELSE GCD(b, a % b)

\* n / d for d # 0, in lowest terms with a positive denominator.
Fraction(n, d) ==
    LET g == GCD(Abs(n), Abs(d))
    IN  [kind |-> "number", num |-> (Sign(d) * n) \div g, den |-> Abs(d) \div g]

\* The JavaScript quotient n / d of two finite numbers.
JsDivide(n, d) ==
    IF d # 0 THEN Fraction(n, d)
    ELSE IF n = 0 THEN NaN
    ELSE IF n > 0 THEN PosInfinity
    ELSE NegInfinity

\* Math.ceil(a / b) and Math.floor(a / b) for b > 0.
Ceil(a, b) == -((-a) \div b)

Floor(a, b) == a \div b

\* new Date('YYYY-MM-DD').getTime()
getTime(date) == date * MsPerDay

\* new Date().toISOString().split('T')[0]
ToISODate(ms) == ms \div MsPerDay

RECURSIVE Sum(_, _)
Sum(f, S) ==
    IF S = {} THEN 0
    ELSE LET i == CHOOSE j \in S : TRUE IN f[i] + Sum(f, S \ {i})

Min(S) == CHOOSE x \in S : \A y \in S : x <= y

(***************************************************************************)
(* The engine's pure functions                                             *)
(***************************************************************************)
\* Array.prototype.find(a => a.is_baseline): the index of the first flagged
\* assessment, 0 when find returns undefined.
FindFlagged(assessments) ==
    LET F == {i \in DOMAIN assessments : assessments[i].is_baseline}
    IN  IF F = {} THEN 0 ELSE Min(F)

\* The baseline of calculateTimeToMCID.
MCIDBaseline(assessments) ==
    IF FindFlagged(assessments) # 0
    THEN assessments[FindFlagged(assessments)]
    ELSE assessments[1]

\* The baseline of calculateWeeksSinceBaseline.
WeeksBaselineFirstRow(assessments) == assessments[1]

WeeksBaseline(assessments) ==
    IF FindFlagged(assessments) # 0
    THEN assessments[FindFlagged(assessments)]
    ELSE assessments[1]

\* The loop of calculateTimeToMCID from index i on.
RECURSIVE ScanMCID(_, _, _)
ScanMCID(assessments, baseline, i) ==
    IF i > Len(assessments) THEN Null
    ELSE LET improvement == baseline.percentage_score - assessments[i].percentage_score
         IN  IF improvement >= ODI_MCID_THRESHOLD
             THEN LET diffTime == getTime(assessments[i].assessment_date)
                                    - getTime(baseline.assessment_date)
                  IN  Number(Ceil(diffTime, MsPerDay))
             ELSE ScanMCID(assessments, baseline, i + 1)

\* Mutants of calculateTimeToMCID: the best improvement wins instead of the
\* first; the threshold is exclusive.
calculateTimeToMCIDBest(assessments) ==
    IF Len(assessments) < 2 THEN Null
    ELSE LET baseline == MCIDBaseline(assessments)
             Q == {i \in DOMAIN assessments :
                     baseline.percentage_score - assessments[i].percentage_score
                        >= ODI_MCID_THRESHOLD}
         IN  IF Q = {} THEN Null
             ELSE LET best == CHOOSE i \in Q : \A j \in Q :
                                 /\ assessments[i].percentage_score
                                       <= assessments[j].percentage_score
                                 /\ (assessments[i].percentage_score
                                       = assessments[j].percentage_score => i >= j)
                  IN  Number(Ceil(getTime(assessments[best].assessment_date)
                                    - getTime(baseline.assessment_date), MsPerDay))

calculateTimeToMCIDExclusive(assessments) ==
    IF Len(assessments) < 2 THEN Null
    ELSE LET baseline == MCIDBaseline(assessments)
             Q == {i \in DOMAIN assessments :
                     baseline.percentage_score - assessments[i].percentage_score
                        > ODI_MCID_THRESHOLD}
         IN  IF Q = {} THEN Null
             ELSE Number(Ceil(getTime(assessments[Min(Q)].assessment_date)
                                - getTime(baseline.assessment_date), MsPerDay))

calculateTimeToMCID(assessments) ==
    IF Len(assessments) < 2 THEN Null
    ELSE ScanMCID(assessments, MCIDBaseline(assessments), 1)

\* Mutant of SliceRecent: the whole series is the window.
SliceRecentWhole(assessments) == assessments

\* assessments.slice(-4)
SliceRecent(assessments) ==
    IF Len(assessments) <= RecentWindow THEN assessments
    ELSE SubSeq(assessments, Len(assessments) - RecentWindow + 1, Len(assessments))

\* Mutant of calculateTrajectorySlope: the elapsed time is taken from the
\* last date to the first.
calculateTrajectorySlopeBackwards(assessments) ==
    IF Len(assessments) < 2 THEN Null
    ELSE LET recent == SliceRecent(assessments)
             n == Len(recent)
             X == [i \in 1..n |-> i - 1]
             Y == [i \in 1..n |-> recent[i].percentage_score]
             sumX == Sum(X, 1..n)
             sumY == Sum(Y, 1..n)
             sumXY == Sum([i \in 1..n |-> X[i] * Y[i]], 1..n)
             sumXX == Sum([i \in 1..n |-> X[i] * X[i]], 1..n)
             daysDiff == (getTime(recent[1].assessment_date)
                            - getTime(recent[n].assessment_date)) \div MsPerDay
         IN  JsDivide((n * sumXY - sumX * sumY) * (n - 1) * DaysPerWeek,
                      (n * sumXX - sumX * sumX) * daysDiff)

calculateTrajectorySlope(assessments) ==
    IF Len(assessments) < 2 THEN Null
    ELSE LET recent == SliceRecent(assessments)
             n == Len(recent)
         IN  IF n < 2 THEN Null
             ELSE LET X == [i \in 1..n |-> i - 1]
                      Y == [i \in 1..n |-> recent[i].percentage_score]
                      sumX == Sum(X, 1..n)
                      sumY == Sum(Y, 1..n)
                      sumXY == Sum([i \in 1..n |-> X[i] * Y[i]], 1..n)
                      sumXX == Sum([i \in 1..n |-> X[i] * X[i]], 1..n)
                      \* slope = slopeNum / slopeDen, slopeDen > 0 for n >= 2
                      slopeNum == n * sumXY - sumX * sumY
                      slopeDen == n * sumXX - sumX * sumX
                      \* both dates are UTC midnights: the quotient is exact
                      daysDiff == (getTime(recent[n].assessment_date)
                                     - getTime(recent[1].assessment_date)) \div MsPerDay
                      \* slope * (n - 1) / (daysDiff / 7)
                  IN  JsDivide(slopeNum * (n - 1) * DaysPerWeek, slopeDen * daysDiff)

\* Mutant of ClosestVAS: of equally near readings the last one is kept.
RECURSIVE ClosestVASLast(_, _, _, _)
ClosestVASLast(vasScores, odiDate, closest, i) ==
    IF i > Len(vasScores) THEN closest
    ELSE LET currentDiff == Abs(getTime(vasScores[i].recorded_date) - getTime(odiDate))
             closestDiff == Abs(getTime(vasScores[closest].recorded_date) - getTime(odiDate))
         IN  ClosestVASLast(vasScores, odiDate,
                            IF currentDiff <= closestDiff THEN i ELSE closest, i + 1)

\* The reduce of calculatePainFunctionCorrelation: closest is the accumulator,
\* i the index of the current element; the index of the reading kept.
RECURSIVE ClosestVAS(_, _, _, _)
ClosestVAS(vasScores, odiDate, closest, i) ==
    IF i > Len(vasScores) THEN closest
    ELSE LET currentDiff == Abs(getTime(vasScores[i].recorded_date) - getTime(odiDate))
             closestDiff == Abs(getTime(vasScores[closest].recorded_date) - getTime(odiDate))
         IN  ClosestVAS(vasScores, odiDate,
                        IF currentDiff < closestDiff THEN i ELSE closest, i + 1)

\* Mutant of MatchedPairs: a gap of up to 4 days is accepted.
RECURSIVE MatchedPairsWithinFour(_, _, _)
MatchedPairsWithinFour(odiAssessments, vasScores, i) ==
    IF i > Len(odiAssessments) THEN << >>
    ELSE LET odi == odiAssessments[i]
             closestVAS == vasScores[ClosestVAS(vasScores, odi.assessment_date, 1, 2)]
             gapMs == Abs(getTime(closestVAS.recorded_date) - getTime(odi.assessment_date))
             rest == MatchedPairsWithinFour(odiAssessments, vasScores, i + 1)
         IN  IF gapMs <= (MaxGapDays + 1) * MsPerDay
             THEN << [odi |-> odi.percentage_score,
                      vas |-> closestVAS.pain_score * VasScale] >> \o rest
             ELSE rest

\* matchedPairs, in the order of the assessments.
RECURSIVE MatchedPairs(_, _, _)
MatchedPairs(odiAssessments, vasScores, i) ==
    IF i > Len(odiAssessments) THEN << >>
    ELSE LET odi == odiAssessments[i]
             closestVAS == vasScores[ClosestVAS(vasScores, odi.assessment_date, 1, 2)]
             gapMs == Abs(getTime(closestVAS.recorded_date) - getTime(odi.assessment_date))
             rest == MatchedPairs(odiAssessments, vasScores, i + 1)
         IN  IF gapMs <= MaxGapDays * MsPerDay
             THEN << [odi |-> odi.percentage_score,
                      vas |-> closestVAS.pain_score * VasScale] >> \o rest
             ELSE rest

\* Mutant of PearsonCorrelation: a zero denominator is divided by.
PearsonCorrelationUnguarded(pairs) ==
    LET n == Len(pairs)
        sumX == Sum([i \in 1..n |-> pairs[i].odi], 1..n)
        sumY == Sum([i \in 1..n |-> pairs[i].vas], 1..n)
        sumXY == Sum([i \in 1..n |-> pairs[i].odi * pairs[i].vas], 1..n)
        sumXX == Sum([i \in 1..n |-> pairs[i].odi * pairs[i].odi], 1..n)
        sumYY == Sum([i \in 1..n |-> pairs[i].vas * pairs[i].vas], 1..n)
        numerator == n * sumXY - sumX * sumY
        radicand == (n * sumXX - sumX * sumX) * (n * sumYY - sumY * sumY)
    IN  IF radicand = 0 THEN JsDivide(numerator, 0)
        ELSE [kind |-> "number", sign |-> Sign(numerator),
              square |-> Fraction(numerator * numerator, radicand)]

\* Mutant of PearsonCorrelation: the numerator is divided by the variance
\* term of the assessment scores alone.
PearsonCorrelationByScoreVariance(pairs) ==
    LET n == Len(pairs)
        sumX == Sum([i \in 1..n |-> pairs[i].odi], 1..n)
        sumY == Sum([i \in 1..n |-> pairs[i].vas], 1..n)
        sumXY == Sum([i \in 1..n |-> pairs[i].odi * pairs[i].vas], 1..n)
        sumXX == Sum([i \in 1..n |-> pairs[i].odi * pairs[i].odi], 1..n)
        numerator == n * sumXY - sumX * sumY
        varX == n * sumXX - sumX * sumX
    IN  IF varX = 0 THEN Null
        ELSE [kind |-> "number", sign |-> Sign(numerator),
              square |-> Fraction(numerator * numerator, varX * varX)]

\* Lines 161-178 of calculatePainFunctionCorrelation: the Pearson coefficient
\* of the matched pairs.
PearsonCorrelation(pairs) ==
    LET n == Len(pairs)
        sumX == Sum([i \in 1..n |-> pairs[i].odi], 1..n)
        sumY == Sum([i \in 1..n |-> pairs[i].vas], 1..n)
        sumXY == Sum([i \in 1..n |-> pairs[i].odi * pairs[i].vas], 1..n)
        sumXX == Sum([i \in 1..n |-> pairs[i].odi * pairs[i].odi], 1..n)
        sumYY == Sum([i \in 1..n |-> pairs[i].vas * pairs[i].vas], 1..n)
        numerator == n * sumXY - sumX * sumY
        \* denominator = sqrt(radicand)
        radicand == (n * sumXX - sumX * sumX) * (n * sumYY - sumY * sumY)
    IN  IF radicand = 0 THEN Null
        ELSE [kind |-> "number", sign |-> Sign(numerator),
              square |-> Fraction(numerator * numerator, radicand)]

\* Mutant of calculatePainFunctionCorrelation: two matched pairs suffice.
calculatePainFunctionCorrelationTwoPairs(odiAssessments, vasScores) ==
    IF Len(odiAssessments) < MinPairs \/ Len(vasScores) < MinPairs THEN Null
    ELSE LET pairs == MatchedPairs(odiAssessments, vasScores, 1)
         IN  IF Len(pairs) < MinPairs - 1 THEN Null
             ELSE PearsonCorrelation(pairs)

calculatePainFunctionCorrelation(odiAssessments, vasScores) ==
    IF Len(odiAssessments) < MinPairs \/ Len(vasScores) < MinPairs THEN Null
    ELSE LET pairs == MatchedPairs(odiAssessments, vasScores, 1)
         IN  IF Len(pairs) < MinPairs THEN Null
             ELSE PearsonCorrelation(pairs)

calculateWeeksSinceBaseline(assessments, clock) ==
    IF Len(assessments) = 0 THEN 0
    ELSE LET baseline == WeeksBaseline(assessments)
             diffTime == clock - getTime(baseline.assessment_date)
         IN  Floor(diffTime, MsPerWeek)

\* Mutant of detectPlateau: the length of the series is not looked at.
detectPlateauUnguarded(assessments) ==
    LET recent == SliceRecent(assessments)
    IN  \A i \in 2..Len(recent) :
           Abs(recent[i].percentage_score - recent[i - 1].percentage_score)
              < PlateauThreshold

\* Mutant of detectPlateau: a change of exactly 5 counts as small.
detectPlateauInclusive(assessments) ==
    IF Len(assessments) < 4 THEN FALSE
    ELSE LET recent == SliceRecent(assessments)
         IN  \A i \in 2..Len(recent) :
                Abs(recent[i].percentage_score - recent[i - 1].percentage_score)
                   <= PlateauThreshold

detectPlateau(assessments) ==
    IF Len(assessments) < 4 THEN FALSE
    ELSE LET recent == SliceRecent(assessments)
             changes == [i \in 1..(Len(recent) - 1) |->
                           Abs(recent[i + 1].percentage_score - recent[i].percentage_score)]
         IN  \A i \in DOMAIN changes : changes[i] < PlateauThreshold

\* Lines 31-43 of calculateAnalytics: the AnalyticsResult.
AnalyticsResult(odi, vas, clock) ==
    [timeToMCID |-> calculateTimeToMCID(odi),
     trajectorySlope |-> calculateTrajectorySlope(odi),
     painFunctionCorrelation |-> calculatePainFunctionCorrelation(odi, vas),
     weeksSinceBaseline |-> calculateWeeksSinceBaseline(odi, clock),
     plateauDetected |-> detectPlateau(odi)]

(***************************************************************************)
(* Storage                                                                 *)
(***************************************************************************)
NoResult == [kind |-> "none"]

NoRow == [kind |-> "none"]

\* percentage_score, the generated column of odi_assessments.
PercentageScore(total) == (total * 100) \div 50

\* The orders in which a query with ORDER BY <date> ASC may return the rows
\* of a table whose row i has the date dates[i]: every arrangement that is
\* ascending by date (the order among rows of one date is not fixed by the
\* query).
DateOrders(table, dates) ==
    LET n == Len(table)
        ascending == {f \in Permutations(1..n) :
                        \A i \in 1..(n - 1) : dates[f[i]] <= dates[f[i + 1]]}
    IN  {[i \in 1..n |-> table[f[i]]] : f \in ascending}

\* .order('assessment_date', { ascending: true }) on odi_assessments
OdiOrders(table) ==
    DateOrders(table, [i \in DOMAIN table |-> table[i].assessment_date])

\* .order('recorded_date', { ascending: true }) on vas_pain_scores
VasOrders(table) ==
    DateOrders(table, [i \in DOMAIN table |-> table[i].recorded_date])

\* The row-level-security policies of analytics_metrics.
AnalyticsMetricsPolicies == {"SELECT", "INSERT"}

\* JSON.stringify of a number or null in the request body.
ToJSON(v) == IF v.kind \in {"NaN", "Infinity", "-Infinity"} THEN Null ELSE v

\* The object saveAnalytics hands to upsert, as the request carries it.
MetricsRow(clock, analytics) ==
    [metric_date |-> ToISODate(clock),
     time_to_mcid_days |-> ToJSON(analytics.timeToMCID),
     current_trajectory_slope |-> ToJSON(analytics.trajectorySlope),
     pain_function_correlation |-> ToJSON(analytics.painFunctionCorrelation),
     weeks_since_baseline |-> analytics.weeksSinceBaseline,
     plateau_detected |-> analytics.plateauDetected]

\* Rows of the table the new row conflicts with on (patient_id, metric_date).
Conflicts(table, row) == {i \in DOMAIN table : table[i].metric_date = row.metric_date}

\* Mutant of Upsert: the row is inserted without conflict handling.
UpsertAlwaysInserts(table, row) == Append(table, row)

\* INSERT ... ON CONFLICT (patient_id, metric_date) DO UPDATE under row-level
\* security: the insert path needs the INSERT policy, the update path the
\* UPDATE policy; a denied statement leaves the table as it was.
Upsert(table, row) ==
    IF Conflicts(table, row) = {}
    THEN IF "INSERT" \in AnalyticsMetricsPolicies THEN Append(table, row) ELSE table
    ELSE IF "UPDATE" \in AnalyticsMetricsPolicies
         THEN [i \in DOMAIN table |-> IF i \in Conflicts(table, row) THEN row ELSE table[i]]
         ELSE table

\* Whether the statement is rejected (the client resolves with an error value).
UpsertDenied(table, row) ==
    IF Conflicts(table, row) = {}
    THEN "INSERT" \notin AnalyticsMetricsPolicies
    ELSE "UPDATE" \notin AnalyticsMetricsPolicies

(***************************************************************************)
(* The environment: the questionnaire and the clock.  Both act between     *)
(* the calls of calculateAnalytics.                                        *)
(***************************************************************************)
\* handleSubmit of the questionnaire: one row dated today, not a baseline.
InsertAssessment ==
    /\ pc = "idle"
    /\ Len(odiTable) < MaxRows
    /\ \E total \in SectionTotals :
          odiTable' = Append(odiTable,
                             [assessment_date |-> ToISODate(now),
                              percentage_score |-> PercentageScore(total),
                              is_baseline |-> FALSE])
    /\ UNCHANGED benchVars
    /\ UNCHANGED uiVars
    /\ UNCHANGED <<vasTable, metrics, now, pc, odiFetch, vasFetch, odiData, vasData,
                   result, upsertReq, saveOutcome, logged>>

\* A day passes.
Tick ==
    /\ pc = "idle"
    /\ ToISODate(now + MsPerDay) <= MaxDay
    /\ now' = now + MsPerDay
    /\ UNCHANGED benchVars
    /\ UNCHANGED uiVars
    /\ UNCHANGED <<odiTable, vasTable, metrics, pc, odiFetch, vasFetch, odiData,
                   vasData, result, upsertReq, saveOutcome, logged>>

(***************************************************************************)
(* calculateAnalytics                                                      *)
(***************************************************************************)
\* The call starts both fetches (Promise.all).
StartCall ==
    /\ pc = "idle"
    /\ pc' = "fetching"
    /\ odiFetch' = "pending"
    /\ vasFetch' = "pending"
    /\ odiData' = << >>
    /\ vasData' = << >>
    /\ result' = NoResult
    /\ upsertReq' = NoRow
    /\ saveOutcome' = "none"
    /\ logged' = {}
    /\ UNCHANGED benchVars
    /\ UNCHANGED uiVars
    /\ UNCHANGED <<odiTable, vasTable, metrics, now>>

\* fetchODIAssessments resolves with the rows.
OdiFetchOk ==
    /\ pc = "fetching"
    /\ odiFetch = "pending"
    /\ \E rows \in OdiOrders(odiTable) : odiData' = rows
    /\ odiFetch' = "ok"
    /\ UNCHANGED benchVars
    /\ UNCHANGED uiVars
    /\ UNCHANGED <<odiTable, vasTable, metrics, now, pc, vasFetch, vasData, result,
                   upsertReq, saveOutcome, logged>>

\* Mutant of OdiFetchError: the error is logged and the series taken as empty.
OdiFetchErrorSwallowed ==
    /\ pc = "fetching"
    /\ odiFetch = "pending"
    /\ odiFetch' = "error"
    /\ odiData' = << >>
    /\ logged' = logged \cup {"Error fetching ODI assessments:"}
    /\ UNCHANGED benchVars
    /\ UNCHANGED uiVars
    /\ UNCHANGED <<odiTable, vasTable, metrics, now, pc, vasFetch, vasData, result,
                   upsertReq, saveOutcome>>

\* fetchODIAssessments throws the storage error: Promise.all rejects and the
\* call fails with it.
OdiFetchError ==
    /\ pc = "fetching"
    /\ odiFetch = "pending"
    /\ odiFetch' = "error"
    /\ pc' = "failed"
    /\ UNCHANGED benchVars
    /\ UNCHANGED uiVars
    /\ UNCHANGED <<odiTable, vasTable, metrics, now, vasFetch, odiData, vasData,
                   result, upsertReq, saveOutcome, logged>>

\* fetchVASScores resolves with the rows.
VasFetchOk ==
    /\ vasFetch = "pending"
    /\ \E rows \in VasOrders(vasTable) : vasData' = rows
    /\ vasFetch' = "ok"
    /\ UNCHANGED benchVars
    /\ UNCHANGED uiVars
    /\ UNCHANGED <<odiTable, vasTable, metrics, now, pc, odiFetch, odiData, result,
                   upsertReq, saveOutcome, logged>>

\* fetchVASScores gets a storage error: it logs it and resolves with [].
VasFetchError ==
    /\ vasFetch = "pending"
    /\ vasFetch' = "error"
    /\ vasData' = << >>
    /\ logged' = logged \cup {"Error fetching VAS scores:"}
    /\ UNCHANGED benchVars
    /\ UNCHANGED uiVars
    /\ UNCHANGED <<odiTable, vasTable, metrics, now, pc, odiFetch, odiData, result,
                   upsertReq, saveOutcome>>

\* Mutant of Compute: the computation starts once the assessments are there.
ComputeEarly ==
    /\ pc = "fetching"
    /\ odiFetch = "ok"
    /\ result' = AnalyticsResult(odiData, vasData, now)
    /\ upsertReq' = MetricsRow(now, result')
    /\ pc' = "saving"
    /\ UNCHANGED benchVars
    /\ UNCHANGED uiVars
    /\ UNCHANGED <<odiTable, vasTable, metrics, now, odiFetch, vasFetch, odiData,
                   vasData, saveOutcome, logged>>

\* Both fetches have resolved (a rejected fetchODIAssessments has ended the
\* call before): lines 31-45 up to the request of the upsert.
Compute ==
    /\ pc = "fetching"
    /\ odiFetch \in {"ok", "error"}
    /\ vasFetch \in {"ok", "error"}
    /\ result' = AnalyticsResult(odiData, vasData, now)
    /\ upsertReq' = MetricsRow(now, result')
    /\ pc' = "saving"
    /\ UNCHANGED benchVars
    /\ UNCHANGED uiVars
    /\ UNCHANGED <<odiTable, vasTable, metrics, now, odiFetch, vasFetch, odiData,
                   vasData, saveOutcome, logged>>

\* The statement reaches the database; the client resolves, with an error
\* value when it was denied, and saveAnalytics does not look at the value.
SaveReachesDatabase ==
    /\ pc = "saving"
    /\ metrics' = Upsert(metrics, upsertReq)
    /\ saveOutcome' = IF UpsertDenied(metrics, upsertReq) THEN "denied" ELSE "written"
    /\ pc' = "returned"
    /\ UNCHANGED benchVars
    /\ UNCHANGED uiVars
    /\ UNCHANGED <<odiTable, vasTable, now, odiFetch, vasFetch, odiData, vasData,
                   result, upsertReq, logged>>

\* The request fails before the database and the client resolves with an
\* error value.
SaveErrorValue ==
    /\ pc = "saving"
    /\ saveOutcome' = "error_value"
    /\ pc' = "returned"
    /\ UNCHANGED benchVars
    /\ UNCHANGED uiVars
    /\ UNCHANGED <<odiTable, vasTable, metrics, now, odiFetch, vasFetch, odiData,
                   vasData, result, upsertReq, logged>>

\* The client throws: the catch of saveAnalytics logs the error.
SaveThrows ==
    /\ pc = "saving"
    /\ saveOutcome' = "thrown"
    /\ logged' = logged \cup {"Error saving analytics:"}
    /\ pc' = "returned"
    /\ UNCHANGED benchVars
    /\ UNCHANGED uiVars
    /\ UNCHANGED <<odiTable, vasTable, metrics, now, odiFetch, vasFetch, odiData,
                   vasData, result, upsertReq>>

\* loadAnalytics, the caller: it takes the result (setAnalytics) or logs the
\* error of a failed call; the call is over once both fetches have ended.
Settle ==
    /\ pc \in {"returned", "failed"}
    /\ vasFetch # "pending"
    /\ pc' = "idle"
    /\ odiFetch' = "none"
    /\ vasFetch' = "none"
    /\ odiData' = << >>
    /\ vasData' = << >>
    /\ result' = NoResult
    /\ upsertReq' = NoRow
    /\ saveOutcome' = "none"
    /\ logged' = {}
    /\ UNCHANGED benchVars
    /\ UNCHANGED uiVars
    /\ UNCHANGED <<odiTable, vasTable, metrics, now>>

(***************************************************************************)
(* getBenchmarkComparison                                                  *)
(***************************************************************************)
TreatmentTypes == {"post_surgery", "conservative", "physical_therapy"}

BenchmarkRow(type, weeks, mean, p25, p50, p75) ==
    [treatment_type |-> type, weeks_post_treatment |-> weeks, mean_odi_score |-> mean,
     percentile_25 |-> p25, percentile_50 |-> p50, percentile_75 |-> p75]

\* The rows the migration inserts (the columns the function reads).
SeedBenchmarks ==
    { BenchmarkRow("post_surgery", 0, 65, 58, 66, 74),
      BenchmarkRow("post_surgery", 2, 58, 50, 58, 66),
      BenchmarkRow("post_surgery", 4, 52, 44, 52, 60),
      BenchmarkRow("post_surgery", 6, 46, 38, 46, 54),
      BenchmarkRow("post_surgery", 8, 40, 33, 40, 48),
      BenchmarkRow("post_surgery", 12, 32, 26, 32, 39),
      BenchmarkRow("post_surgery", 16, 26, 20, 26, 32),
      BenchmarkRow("post_surgery", 24, 18, 13, 18, 24) }

\* Rows of another treatment type that the table may hold beside the seed:
\* one row per (treatment_type, weeks_post_treatment), weeks >= 0.
ConservativeBenchmarks ==
    { BenchmarkRow("conservative", 2, 48, 40, 48, 56),
      BenchmarkRow("conservative", 12, 36, 28, 36, 44) }

\* Mutant of FetchBenchmark: the order is ascending, the earliest row is taken.
FetchBenchmarkEarliest(table, treatmentType, weeksSinceTreatment) ==
    LET matching == {r \in table : /\ r.treatment_type = treatmentType
                                  /\ r.weeks_post_treatment <= weeksSinceTreatment}
    IN  IF matching = {} THEN Null
        ELSE CHOOSE r \in matching :
                \A q \in matching : r.weeks_post_treatment <= q.weeks_post_treatment

\* Mutant of FetchBenchmark: without a row at or below the cutoff the
\* earliest row of the treatment type is taken.
FetchBenchmarkOrEarliest(table, treatmentType, weeksSinceTreatment) ==
    LET ofType == {r \in table : r.treatment_type = treatmentType}
        matching == {r \in ofType : r.weeks_post_treatment <= weeksSinceTreatment}
    IN  IF ofType = {} THEN Null
        ELSE IF matching = {}
        THEN CHOOSE r \in ofType :
                \A q \in ofType : r.weeks_post_treatment <= q.weeks_post_treatment
        ELSE CHOOSE r \in matching :
                \A q \in matching : q.weeks_post_treatment <= r.weeks_post_treatment

\* The query: eq treatment_type, lte weeks_post_treatment, order descending,
\* limit 1, maybeSingle.
FetchBenchmark(table, treatmentType, weeksSinceTreatment) ==
    LET matching == {r \in table : /\ r.treatment_type = treatmentType
                                  /\ r.weeks_post_treatment <= weeksSinceTreatment}
    IN  IF matching = {} THEN Null
        ELSE CHOOSE r \in matching :
                \A q \in matching : q.weeks_post_treatment <= r.weeks_post_treatment

\* Mutant of Percentile: a score on a band boundary falls in the upper band.
PercentileExclusive(patientScore, data) ==
    IF patientScore < data.percentile_25 THEN 25
    ELSE IF patientScore < data.percentile_50 THEN 50
    ELSE IF patientScore < data.percentile_75 THEN 75
    ELSE 90

Percentile(patientScore, data) ==
    IF patientScore <= data.percentile_25 THEN 25
    ELSE IF patientScore <= data.percentile_50 THEN 50
    ELSE IF patientScore <= data.percentile_75 THEN 75
    ELSE 90

Interpretation(percentile) ==
    IF percentile <= 25 THEN "excellent"
    ELSE IF percentile <= 50 THEN "above_average"
    ELSE IF percentile <= 75 THEN "average"
    ELSE "below_average"

BenchmarkComparison(patientScore, data) ==
    [mean |-> data.mean_odi_score,
     percentile |-> Percentile(patientScore, data),
     interpretation |-> Interpretation(Percentile(patientScore, data))]

NoArgs == [kind |-> "none"]

\* No call of getBenchmarkComparison is under way; the table holds the seed.
NoBenchmarkCall ==
    /\ benchTable = SeedBenchmarks
    /\ benchPc = "idle"
    /\ benchArgs = NoArgs
    /\ benchData = Null
    /\ benchResult = Null

\* Neither the questionnaire nor the Home page is open: the initial values of
\* their state.
NoPageOpen ==
    /\ currentSection = 0
    /\ responses = << >>
    /\ saving = FALSE
    /\ assessmentData = Null
    /\ alerted = {}
    /\ showODIAssessment = FALSE
    /\ clicks = 0
    /\ homePc = "unmounted"
    /\ latestODI = Null
    /\ previousODI = Null
    /\ homeAnalytics = Null
    /\ daysPostTreatment = 0
    /\ insights = << >>
    /\ loads = [odi |-> "none", analytics |-> "none", appointments |-> "none"]
    /\ closure = Null
    /\ reloads = 0

analyticsVars == <<odiTable, vasTable, metrics, now, pc, odiFetch, vasFetch, odiData,
                   vasData, result, upsertReq, saveOutcome>>

\* getBenchmarkComparison(patientScore, treatmentType, weeksSinceTreatment)
\* is called and awaits its query.
CallBenchmark ==
    /\ benchPc = "idle"
    /\ \E patientScore \in BenchScores, treatmentType \in TreatmentTypes,
          weeksSinceTreatment \in (-1)..MaxWeeks :
          benchArgs' = [patientScore |-> patientScore, treatmentType |-> treatmentType,
                        weeksSinceTreatment |-> weeksSinceTreatment]
    /\ benchPc' = "fetching"
    /\ UNCHANGED <<benchTable, benchData, benchResult, logged>>
    /\ UNCHANGED analyticsVars
    /\ UNCHANGED uiVars

\* The query resolves with a row or with none: without a row the function
\* logs and returns null, with one it returns the comparison.
BenchmarkFetched ==
    /\ benchPc = "fetching"
    /\ benchData' = FetchBenchmark(benchTable, benchArgs.treatmentType,
                                   benchArgs.weeksSinceTreatment)
    /\ IF benchData' = Null
       THEN /\ benchResult' = Null
            /\ logged' = logged \cup {"Error fetching benchmarks:"}
       ELSE /\ benchResult' = BenchmarkComparison(benchArgs.patientScore, benchData')
            /\ UNCHANGED logged
    /\ benchPc' = "returned"
    /\ UNCHANGED <<benchTable, benchArgs>>
    /\ UNCHANGED analyticsVars
    /\ UNCHANGED uiVars

\* The query resolves with an error value: the function logs and returns null.
BenchmarkFetchError ==
    /\ benchPc = "fetching"
    /\ benchData' = Null
    /\ benchResult' = Null
    /\ logged' = logged \cup {"Error fetching benchmarks:"}
    /\ benchPc' = "failed"
    /\ UNCHANGED <<benchTable, benchArgs>>
    /\ UNCHANGED analyticsVars
    /\ UNCHANGED uiVars

(***************************************************************************)
(* Specifications                                                          *)
(***************************************************************************)
Init ==
    /\ odiTable = << >>
    /\ vasTable \in VasSamples
    /\ metrics = << >>
    /\ now = StartOfRun
    /\ pc = "idle"
    /\ odiFetch = "none"
    /\ vasFetch = "none"
    /\ odiData = << >>
    /\ vasData = << >>
    /\ result = NoResult
    /\ upsertReq = NoRow
    /\ saveOutcome = "none"
    /\ logged = {}
    /\ NoBenchmarkCall
    /\ NoPageOpen

Next ==
    \/ InsertAssessment
    \/ Tick
    \/ StartCall
    \/ OdiFetchOk
    \/ OdiFetchError
    \/ VasFetchOk
    \/ VasFetchError
    \/ Compute
    \/ SaveReachesDatabase
    \/ SaveErrorValue
    \/ SaveThrows
    \/ Settle

Spec == Init /\ [][Next]_vars

\* The state of a call whose fetches have resolved with a drawn assessment
\* series: every series of at most MaxLen rows that is ascending by date.
InitFn ==
    /\ \E n \in 0..MaxLen :
         \E d \in [1..n -> FnDates] :
            /\ \A i \in 1..(n - 1) : d[i] <= d[i + 1]
            /\ \E sf \in [1..n -> FnScores \X BOOLEAN] :
                  odiData = [i \in 1..n |-> [assessment_date |-> d[i],
                                             percentage_score |-> sf[i][1],
                                             is_baseline |-> sf[i][2]]]
    /\ vasData \in FnVasSamples
    /\ odiTable = odiData
    /\ vasTable = vasData
    /\ metrics = << >>
    /\ now = FnNow
    /\ pc = "fetching"
    /\ odiFetch = "ok"
    /\ vasFetch = "ok"
    /\ result = NoResult
    /\ upsertReq = NoRow
    /\ saveOutcome = "none"
    /\ logged = {}
    /\ NoBenchmarkCall
    /\ NoPageOpen

NextFn == Compute

SpecFn == InitFn /\ [][NextFn]_vars

\* The state of a call whose fetches have resolved with a series of up to
\* MaxSeriesLen unflagged assessments, longer than the window of the last
\* four, at one of the clocks of SeriesClocks.
InitSeries ==
    /\ \E n \in 0..MaxSeriesLen :
         \E d \in [1..n -> FnDates] :
            /\ \A i \in 1..(n - 1) : d[i] <= d[i + 1]
            /\ \E sc \in [1..n -> SeriesScores] :
                  odiData = [i \in 1..n |-> [assessment_date |-> d[i],
                                             percentage_score |-> sc[i],
                                             is_baseline |-> FALSE]]
    /\ vasData \in FnVasSamples
    /\ odiTable = odiData
    /\ vasTable = vasData
    /\ metrics = << >>
    /\ now \in SeriesClocks
    /\ pc = "fetching"
    /\ odiFetch = "ok"
    /\ vasFetch = "ok"
    /\ result = NoResult
    /\ upsertReq = NoRow
    /\ saveOutcome = "none"
    /\ logged = {}
    /\ NoBenchmarkCall
    /\ NoPageOpen

NextSeries == Compute

SpecSeries == InitSeries /\ [][NextSeries]_vars

\* The state of a call whose fetches have resolved with a series of up to
\* MaxPainOdi assessments of different dates and a series of up to MaxPainVas
\* pain readings, both ascending by date.
InitPain ==
    /\ \E n \in 0..MaxPainOdi :
         \E d \in [1..n -> PainOdiDates] :
            /\ \A i \in 1..(n - 1) : d[i] < d[i + 1]
            /\ \E sc \in [1..n -> PainOdiScores] :
                  odiData = [i \in 1..n |-> [assessment_date |-> d[i],
                                             percentage_score |-> sc[i],
                                             is_baseline |-> FALSE]]
    /\ \E m \in 0..MaxPainVas :
         \E d \in [1..m -> PainVasDates] :
            /\ \A i \in 1..(m - 1) : d[i] <= d[i + 1]
            /\ \E ps \in [1..m -> PainScores] :
                  vasData = [i \in 1..m |-> [recorded_date |-> d[i],
                                             pain_score |-> ps[i]]]
    /\ odiTable = odiData
    /\ vasTable = vasData
    /\ metrics = << >>
    /\ now = FnNow
    /\ pc = "fetching"
    /\ odiFetch = "ok"
    /\ vasFetch = "ok"
    /\ result = NoResult
    /\ upsertReq = NoRow
    /\ saveOutcome = "none"
    /\ logged = {}
    /\ NoBenchmarkCall
    /\ NoPageOpen

NextPain == Compute

SpecPain == InitPain /\ [][NextPain]_vars

\* No call of calculateAnalytics is under way; population_benchmarks holds
\* the seed, with or without rows of a second treatment type.
InitBench ==
    /\ odiTable = << >>
    /\ vasTable = << >>
    /\ metrics = << >>
    /\ now = StartOfRun
    /\ pc = "idle"
    /\ odiFetch = "none"
    /\ vasFetch = "none"
    /\ odiData = << >>
    /\ vasData = << >>
    /\ result = NoResult
    /\ upsertReq = NoRow
    /\ saveOutcome = "none"
    /\ logged = {}
    /\ \E extra \in SUBSET ConservativeBenchmarks : benchTable = SeedBenchmarks \cup extra
    /\ benchPc = "idle"
    /\ benchArgs = NoArgs
    /\ benchData = Null
    /\ benchResult = Null
    /\ NoPageOpen

NextBench ==
    \/ CallBenchmark
    \/ BenchmarkFetched
    \/ BenchmarkFetchError

SpecBench == InitBench /\ [][NextBench]_vars

(***************************************************************************)
(* The ODI questionnaire (src/src/components/ODIAssessment.tsx) and the    *)
(* odi_assessments table it inserts into.                                  *)
(***************************************************************************)
\* ODI_SECTIONS.length
NumSections == 10

\* The highest score of a section: the options of a section are indexed 0..5
\* and the column CHECKs are BETWEEN 0 AND 5.
SectionScale == 5

\* At most this many answers, Next and Back presses in a session.
MaxClicks == 23

\* The indices of ODI_SECTIONS.
Sections == 0..(NumSections - 1)

\* The scores the option buttons pass to handleResponse.
AnswerOptions == 0..SectionScale

\* The options pressed in the sessions explored.
AnswerSamples == {0, 5}

\* ODI_SECTIONS.every(section => responses[section.name] !== undefined)
allAnswered == Sections \subseteq DOMAIN responses

\* canProceed: the section on screen has an answer.
canProceed == currentSection \in DOMAIN responses

\* Mutant of TotalScore: the last section is left out of the sum.
TotalScoreNineSections(sections) == Sum(sections, Sections \ {NumSections - 1})

\* The generated column total_score: the sum of the ten section columns.
TotalScore(sections) == Sum(sections, Sections)

\* The column CHECKs of odi_assessments.
SectionChecks(sections) == \A s \in Sections : sections[s] \in 0..SectionScale

\* The row odi_assessments holds for an inserted assessment.
AssessmentRow(data) ==
    [assessment_date |-> data.assessment_date,
     sections |-> data.sections,
     total_score |-> TotalScore(data.sections),
     percentage_score |-> PercentageScore(TotalScore(data.sections)),
     is_baseline |-> FALSE]

\* handleResponse(score): an option of the section on screen is pressed.
HandleResponse ==
    /\ showODIAssessment
    /\ clicks < MaxClicks
    /\ \E score \in AnswerSamples :
          responses' = [s \in DOMAIN responses \cup {currentSection} |->
                           IF s = currentSection THEN score ELSE responses[s]]
    /\ clicks' = clicks + 1
    /\ UNCHANGED <<currentSection, saving, assessmentData, alerted, showODIAssessment>>
    /\ UNCHANGED <<homeVars, benchVars, analyticsVars, logged>>

\* Mutant of HandleNext: the button is enabled without an answer.
HandleNextWithoutAnswer ==
    /\ showODIAssessment
    /\ clicks < MaxClicks
    /\ ~saving
    /\ currentSection < NumSections - 1
    /\ currentSection' = currentSection + 1
    /\ clicks' = clicks + 1
    /\ UNCHANGED <<responses, saving, assessmentData, alerted, showODIAssessment>>
    /\ UNCHANGED <<homeVars, benchVars, analyticsVars, logged>>

\* handleNext, behind the button that is disabled without an answer and
\* while saving; on the last section it runs handleSubmit up to the insert.
HandleNext ==
    /\ showODIAssessment
    /\ clicks < MaxClicks
    /\ canProceed
    /\ ~saving
    /\ clicks' = clicks + 1
    /\ IF currentSection < NumSections - 1
       THEN /\ currentSection' = currentSection + 1
            /\ UNCHANGED <<saving, assessmentData, alerted>>
       ELSE IF ~allAnswered
       THEN /\ alerted' = alerted \cup {"Please answer all sections before submitting"}
            /\ UNCHANGED <<currentSection, saving, assessmentData>>
       ELSE /\ saving' = TRUE
            /\ assessmentData' = [assessment_date |-> ToISODate(now),
                                  sections |-> responses]
            /\ UNCHANGED <<currentSection, alerted>>
    /\ UNCHANGED <<responses, showODIAssessment>>
    /\ UNCHANGED <<homeVars, benchVars, analyticsVars, logged>>

\* handleBack, behind the button that is shown after the first section.
HandleBack ==
    /\ showODIAssessment
    /\ clicks < MaxClicks
    /\ currentSection > 0
    /\ currentSection' = currentSection - 1
    /\ clicks' = clicks + 1
    /\ UNCHANGED <<responses, saving, assessmentData, alerted, showODIAssessment>>
    /\ UNCHANGED <<homeVars, benchVars, analyticsVars, logged>>

\* onCancel: the page takes the questionnaire off the screen; an insert
\* under way goes on.
Cancel ==
    /\ showODIAssessment
    /\ showODIAssessment' = FALSE
    /\ UNCHANGED <<currentSection, responses, saving, assessmentData, alerted, clicks>>
    /\ UNCHANGED <<homeVars, benchVars, analyticsVars, logged>>

\* The insert succeeds: the row is stored with its generated columns, and
\* onComplete takes the questionnaire off the screen.
InsertOk ==
    /\ assessmentData # Null
    /\ SectionChecks(assessmentData.sections)
    /\ odiTable' = Append(odiTable, AssessmentRow(assessmentData))
    /\ assessmentData' = Null
    /\ saving' = FALSE
    /\ showODIAssessment' = FALSE
    /\ UNCHANGED <<currentSection, responses, alerted, clicks>>
    /\ UNCHANGED <<homeVars, benchVars, logged>>
    /\ UNCHANGED <<vasTable, metrics, now, pc, odiFetch, vasFetch, odiData, vasData,
                   result, upsertReq, saveOutcome>>

\* The insert fails: the error is logged, the patient is told, and the
\* questionnaire stays with its answers.
InsertError ==
    /\ assessmentData # Null
    /\ assessmentData' = Null
    /\ saving' = FALSE
    /\ logged' = logged \cup {"Error saving ODI assessment:"}
    /\ alerted' = alerted \cup {"Failed to save assessment. Please try again."}
    /\ UNCHANGED <<currentSection, responses, showODIAssessment, clicks>>
    /\ UNCHANGED <<homeVars, benchVars, analyticsVars>>

\* The questionnaire has just been put on screen; no assessment is stored.
InitQuestionnaire ==
    /\ odiTable = << >>
    /\ vasTable = << >>
    /\ metrics = << >>
    /\ now \in {StartOfRun, FnNow}
    /\ pc = "idle"
    /\ odiFetch = "none"
    /\ vasFetch = "none"
    /\ odiData = << >>
    /\ vasData = << >>
    /\ result = NoResult
    /\ upsertReq = NoRow
    /\ saveOutcome = "none"
    /\ logged = {}
    /\ NoBenchmarkCall
    /\ currentSection = 0
    /\ responses = << >>
    /\ saving = FALSE
    /\ assessmentData = Null
    /\ alerted = {}
    /\ showODIAssessment = TRUE
    /\ clicks = 0
    /\ homePc = "unmounted"
    /\ latestODI = Null
    /\ previousODI = Null
    /\ homeAnalytics = Null
    /\ daysPostTreatment = 0
    /\ insights = << >>
    /\ loads = [odi |-> "none", analytics |-> "none", appointments |-> "none"]
    /\ closure = Null
    /\ reloads = 0

NextQuestionnaire ==
    \/ HandleResponse
    \/ HandleNext
    \/ HandleBack
    \/ Cancel
    \/ InsertOk
    \/ InsertError

SpecQuestionnaire == InitQuestionnaire /\ [][NextQuestionnaire]_vars

(***************************************************************************)
(* The analytics cards of the Home page (src/src/pages/Home.tsx) and of    *)
(* the Progress page (src/src/pages/Registration.tsx), as functions of the *)
(* snapshot the page holds.                                                *)
(***************************************************************************)

\* Nothing is rendered for the card.
Hidden == [shown |-> FALSE]

\* Math.abs of a slope.
MathAbs(v) ==
    IF v.kind = "number" THEN Fraction(Abs(v.num), v.den)
    ELSE IF v.kind = "NaN" THEN NaN
    ELSE PosInfinity

\* Number.prototype.toFixed(1) of a non-negative value: the text of a finite
\* number is its count of tenths, rounded half up; NaN and Infinity are
\* spelled out.
ToFixed1(v) ==
    IF v.kind = "number"
    THEN [kind |-> "decimal", tenths |-> (20 * v.num + v.den) \div (2 * v.den)]
    ELSE [kind |-> "text", text |-> v.kind]

\* analytics.trajectorySlope < 0: false for NaN.
SlopeIsNegative(v) ==
    \/ v.kind = "-Infinity"
    \/ v.kind = "number" /\ v.num < 0

\* The trajectory card, the same expression on both pages.
TrajectoryCard(a) ==
    IF a.trajectorySlope = Null THEN Hidden
    ELSE [shown |-> TRUE,
          arrow |-> IF SlopeIsNegative(a.trajectorySlope) THEN "down" ELSE "up",
          text |-> ToFixed1(MathAbs(a.trajectorySlope))]

\* JavaScript truthiness of timeToMCID: null and 0 are falsy.
Truthy(v) == v # Null /\ v # Number(0)

\* Home: {analytics.timeToMCID && (card)}; React renders the operand itself
\* when it is the number 0 and nothing when it is null.
HomeMCIDCard(a) ==
    IF Truthy(a.timeToMCID) THEN [shown |-> TRUE, days |-> a.timeToMCID.value]
    ELSE IF a.timeToMCID = Null THEN Hidden
    ELSE [shown |-> TRUE, bare |-> 0]

\* Progress: timeToMCID ? (days and whole weeks) : (not yet achieved).
ProgressMCIDCard(a) ==
    IF Truthy(a.timeToMCID)
    THEN [shown |-> TRUE, days |-> a.timeToMCID.value,
          weeks |-> Floor(a.timeToMCID.value, 7)]
    ELSE [shown |-> TRUE, message |-> "MCID not yet achieved"]

\* Progress: the trajectory card or its placeholder.
ProgressTrajectoryCard(a) ==
    IF a.trajectorySlope # Null THEN TrajectoryCard(a)
    ELSE [shown |-> TRUE, message |-> "Complete more assessments"]

(***************************************************************************)
(* The Home dashboard (src/src/pages/Home.tsx): its loads and the insight  *)
(* list built at the end of a load.                                        *)
(***************************************************************************)
\* The user object changes at most this often while the page is mounted.
MaxReloads == 1

\* newInsights.slice(0, 3)
MaxInsights == 3

\* Limits of the insight rules, in days.
FastRecoveryDays == 60

FirstAssessmentDays == 7

OverdueDays == 14

\* The assessments of the patients explored: a plateau, two assessments of
\* one date followed by a third, an improvement, and none.
HomeOdiSamples ==
    {<< >>,
     <<[assessment_date |-> 0, percentage_score |-> 50, is_baseline |-> FALSE],
       [assessment_date |-> 7, percentage_score |-> 50, is_baseline |-> FALSE],
       [assessment_date |-> 14, percentage_score |-> 52, is_baseline |-> FALSE],
       [assessment_date |-> 21, percentage_score |-> 50, is_baseline |-> FALSE]>>,
     <<[assessment_date |-> 0, percentage_score |-> 60, is_baseline |-> FALSE],
       [assessment_date |-> 0, percentage_score |-> 50, is_baseline |-> FALSE],
       [assessment_date |-> 7, percentage_score |-> 48, is_baseline |-> FALSE]>>,
     <<[assessment_date |-> 0, percentage_score |-> 60, is_baseline |-> FALSE],
       [assessment_date |-> 7, percentage_score |-> 44, is_baseline |-> FALSE]>>}

\* Their pain readings.
HomeVasSamples ==
    {<< >>,
     <<[recorded_date |-> 0, pain_score |-> 6],
       [recorded_date |-> 7, pain_score |-> 5],
       [recorded_date |-> 14, pain_score |-> 6]>>}

\* profile.surgery_date of the patients explored.
SurgeryDates == {2, 12}

\* new Date(date).getDate(): the day of the month; the dates explored lie in
\* the first month of the epoch.
getDate(date) == date + 1

\* The state values a render of the page hands to the functions it defines.
RenderState ==
    [latestODI |-> latestODI, previousODI |-> previousODI,
     analytics |-> homeAnalytics, daysPostTreatment |-> daysPostTreatment]

\* The values of the first render: the useState initial values.
FirstRender ==
    [latestODI |-> Null, previousODI |-> Null, analytics |-> Null,
     daysPostTreatment |-> 0]

\* The columns loadODIData selects.
OdiSummary(row) ==
    [percentage_score |-> row.percentage_score, assessment_date |-> row.assessment_date]

\* order('assessment_date', { ascending: false }).limit(2) on a date ordering
\* of the table.
LatestTwo(rows) ==
    [i \in 1..Min({2, Len(rows)}) |-> OdiSummary(rows[Len(rows) + 1 - i])]

\* The insights of generateInsights before the slice, from the state values
\* it sees.
NewInsights(s) ==
    (IF s.latestODI # Null /\ s.previousODI # Null
     THEN LET improvement == s.previousODI.percentage_score - s.latestODI.percentage_score
          IN  IF improvement >= ODI_MCID_THRESHOLD THEN <<"mcid">>
              ELSE IF improvement < 0 THEN <<"setback">>
              ELSE << >>
     ELSE << >>)
    \o (IF s.analytics # Null /\ s.analytics.plateauDetected
        THEN <<"plateau">> ELSE << >>)
    \o (IF /\ s.analytics # Null
           /\ Truthy(s.analytics.timeToMCID)
           /\ s.analytics.timeToMCID.value < FastRecoveryDays
        THEN <<"fast_recovery">> ELSE << >>)
    \o (IF s.latestODI = Null /\ s.daysPostTreatment > FirstAssessmentDays
        THEN <<"first_assessment">> ELSE << >>)
    \o (IF /\ s.latestODI # Null
           /\ s.daysPostTreatment - getDate(s.latestODI.assessment_date) > OverdueDays
        THEN <<"overdue_assessment">> ELSE << >>)

\* loadDashboardData up to its await: the three loads start, the
\* calculateAnalytics call of loadAnalytics among them; s is the state of the
\* render whose effect started the load.
StartLoad(s) ==
    /\ homePc' = "loading"
    /\ closure' = s
    /\ loads' = [odi |-> "pending", analytics |-> "pending", appointments |-> "pending"]
    /\ pc' = "fetching"
    /\ odiFetch' = "pending"
    /\ vasFetch' = "pending"
    /\ odiData' = << >>
    /\ vasData' = << >>
    /\ result' = NoResult
    /\ upsertReq' = NoRow
    /\ saveOutcome' = "none"

\* The page mounts with the user signed in: the [user] effect of the first
\* render calls loadDashboardData.
Mount ==
    /\ homePc = "unmounted"
    /\ pc = "idle"
    /\ StartLoad(FirstRender)
    /\ UNCHANGED <<latestODI, previousODI, homeAnalytics, daysPostTreatment, insights,
                   reloads>>
    /\ UNCHANGED <<questionnaireVars, benchVars, logged>>
    /\ UNCHANGED <<odiTable, vasTable, metrics, now>>

\* The user object changes after a load: the [user] effect of the current
\* render calls loadDashboardData again.
UserChanged ==
    /\ homePc = "loaded"
    /\ reloads < MaxReloads
    /\ reloads' = reloads + 1
    /\ StartLoad(RenderState)
    /\ UNCHANGED <<latestODI, previousODI, homeAnalytics, daysPostTreatment, insights>>
    /\ UNCHANGED <<questionnaireVars, benchVars, logged>>
    /\ UNCHANGED <<odiTable, vasTable, metrics, now>>

\* The [profile] effect once the profile with its surgery date is there.
ProfileLoaded ==
    /\ homePc # "unmounted"
    /\ daysPostTreatment = 0
    /\ \E surgery_date \in SurgeryDates :
          LET diffDays == Floor(now - getTime(surgery_date), MsPerDay)
          IN  daysPostTreatment' = IF diffDays > 0 THEN diffDays ELSE 0
    /\ UNCHANGED <<homePc, latestODI, previousODI, homeAnalytics, insights, loads,
                   closure, reloads>>
    /\ UNCHANGED <<questionnaireVars, benchVars, analyticsVars, logged>>

\* loadODIData with the query answered.
LoadODIOk ==
    /\ loads.odi = "pending"
    /\ \E rows \in OdiOrders(odiTable) :
          LET data == LatestTwo(rows)
          IN  /\ latestODI' = IF Len(data) > 0 THEN data[1] ELSE latestODI
              /\ previousODI' = IF Len(data) > 1 THEN data[2] ELSE previousODI
    /\ loads' = [loads EXCEPT !.odi = "done"]
    /\ UNCHANGED <<homePc, homeAnalytics, daysPostTreatment, insights, closure, reloads>>
    /\ UNCHANGED <<questionnaireVars, benchVars, analyticsVars, logged>>

\* loadODIData with the query failing.
LoadODIError ==
    /\ loads.odi = "pending"
    /\ logged' = logged \cup {"Error loading ODI:"}
    /\ loads' = [loads EXCEPT !.odi = "done"]
    /\ UNCHANGED <<homePc, latestODI, previousODI, homeAnalytics, daysPostTreatment,
                   insights, closure, reloads>>
    /\ UNCHANGED <<questionnaireVars, benchVars, analyticsVars>>

\* loadAppointments ends; the appointment list does not enter the insights.
LoadAppointmentsDone ==
    /\ loads.appointments = "pending"
    /\ loads' = [loads EXCEPT !.appointments = "done"]
    /\ UNCHANGED <<homePc, latestODI, previousODI, homeAnalytics, daysPostTreatment,
                   insights, closure, reloads>>
    /\ UNCHANGED <<questionnaireVars, benchVars, analyticsVars, logged>>

\* loadAnalytics after its await: setAnalytics of the returned snapshot, or
\* the error of a failed call logged.
LoadAnalyticsDone ==
    /\ loads.analytics = "pending"
    /\ pc \in {"returned", "failed"}
    /\ vasFetch # "pending"
    /\ IF pc = "returned"
       THEN homeAnalytics' = result /\ UNCHANGED logged
       ELSE logged' = logged \cup {"Error loading analytics:"} /\ UNCHANGED homeAnalytics
    /\ loads' = [loads EXCEPT !.analytics = "done"]
    /\ UNCHANGED <<homePc, latestODI, previousODI, daysPostTreatment, insights, closure,
                   reloads>>
    /\ UNCHANGED <<questionnaireVars, benchVars, analyticsVars>>

\* generateInsights after the three loads, then setLoading(false): the
\* function is the one of the render that started the load and reads that
\* render's latestODI, previousODI, analytics and daysPostTreatment.
GenerateInsights ==
    /\ homePc = "loading"
    /\ \A l \in DOMAIN loads : loads[l] = "done"
    /\ insights' = SubSeq(NewInsights(closure), 1,
                          Min({MaxInsights, Len(NewInsights(closure))}))
    /\ homePc' = "loaded"
    /\ UNCHANGED <<latestODI, previousODI, homeAnalytics, daysPostTreatment, loads,
                   closure, reloads>>
    /\ UNCHANGED <<questionnaireVars, benchVars, analyticsVars, logged>>

\* A patient with some history opens the Home page.
InitHome ==
    /\ odiTable \in HomeOdiSamples
    /\ vasTable \in HomeVasSamples
    /\ metrics = << >>
    /\ now = FnNow
    /\ pc = "idle"
    /\ odiFetch = "none"
    /\ vasFetch = "none"
    /\ odiData = << >>
    /\ vasData = << >>
    /\ result = NoResult
    /\ upsertReq = NoRow
    /\ saveOutcome = "none"
    /\ logged = {}
    /\ NoBenchmarkCall
    /\ NoPageOpen

NextHome ==
    \/ Mount
    \/ UserChanged
    \/ ProfileLoaded
    \/ LoadODIOk
    \/ LoadODIError
    \/ LoadAppointmentsDone
    \/ OdiFetchOk
    \/ OdiFetchError
    \/ VasFetchOk
    \/ VasFetchError
    \/ Compute
    \/ SaveReachesDatabase
    \/ SaveErrorValue
    \/ SaveThrows
    \/ LoadAnalyticsDone
    \/ GenerateInsights

SpecHome == InitHome /\ [][NextHome]_vars

(***************************************************************************)
(* Properties                                                              *)
(***************************************************************************)
\* The call has built its AnalyticsResult.
Computed == pc \in {"saving", "returned"}

\* The baseline as the data model states it: the first assessment flagged
\* is_baseline, the first assessment of the series when none is flagged.
StatedBaseline(series) ==
    LET F == {i \in DOMAIN series : series[i].is_baseline}
    IN  IF F = {} THEN series[1] ELSE series[CHOOSE i \in F : \A j \in F : i <= j]

\* The assessments of the series at least `points` below the baseline score.
Reaching(series, points) ==
    {i \in DOMAIN series :
        StatedBaseline(series).percentage_score - series[i].percentage_score >= points}

EarliestDate(series, S) ==
    CHOOSE d \in {series[i].assessment_date : i \in S} :
        \A i \in S : d <= series[i].assessment_date

\* C1: when some assessment of a series of at least two is 10 or more points
\* below the baseline score, timeToMCID is the number of days from the
\* baseline date to the earliest date of such an assessment, whatever the
\* improvements of the later ones.
C1_FirstQualifyingAssessmentWins ==
    (Computed /\ Len(odiData) >= 2 /\ Reaching(odiData, 10) # {})
        => result.timeToMCID =
              Number(EarliestDate(odiData, Reaching(odiData, 10))
                        - StatedBaseline(odiData).assessment_date)

\* C1 happens: two assessments reach the threshold on different dates, the
\* later one with the larger improvement, and the earlier date is reported.
C1_Witness ==
    /\ Computed
    /\ \E i, j \in Reaching(odiData, 10) :
          /\ odiData[i].assessment_date < odiData[j].assessment_date
          /\ odiData[j].percentage_score < odiData[i].percentage_score
          /\ odiData[i].assessment_date > StatedBaseline(odiData).assessment_date
          /\ result.timeToMCID =
                Number(odiData[i].assessment_date
                          - StatedBaseline(odiData).assessment_date)

\* C2: timeToMCID is null for a series of length 0 or 1, and for a longer
\* series it is null exactly when no assessment is 10 or more points below
\* the baseline score.
C2_NullUnlessThresholdReached ==
    Computed =>
        /\ Len(odiData) < 2 => result.timeToMCID = Null
        /\ Len(odiData) >= 2 =>
              (result.timeToMCID = Null <=> Reaching(odiData, 10) = {})

\* C2 happens: a series whose largest drop is exactly 9 points gives null.
C2_Witness ==
    /\ Computed
    /\ Len(odiData) >= 2
    /\ Reaching(odiData, 9) # {}
    /\ Reaching(odiData, 10) = {}
    /\ result.timeToMCID = Null

\* C3: the trajectory slope of a result is null or a finite number, and it
\* is null when the first and the last assessment of the window have the
\* same date.
C3_SlopeNullWhenNoTimeElapses ==
    (Computed /\ Len(odiData) >= 2) =>
        /\ result.trajectorySlope.kind \in {"null", "number"}
        /\ (odiData[Len(odiData)].assessment_date
               = odiData[IF Len(odiData) > 4 THEN Len(odiData) - 3 ELSE 1].assessment_date)
              => result.trajectorySlope = Null

C5_SaveFailureLoggedAndSwallowed ==
    (pc = "returned" /\ saveOutcome \in {"thrown", "error_value", "denied"}) =>
        /\ "Error saving analytics:" \in logged
        /\ result = AnalyticsResult(odiData, vasData, now)

\* C6: when a call has returned and the write reached the database, the row
\* of analytics_metrics for the date of the call holds the values the call
\* returned (as JSON carries them).
C6_StoreHoldsLatestSnapshot ==
    (pc = "returned" /\ saveOutcome \in {"written", "denied"}) =>
        \E i \in DOMAIN metrics :
            /\ metrics[i].metric_date = ToISODate(now)
            /\ metrics[i].time_to_mcid_days = ToJSON(result.timeToMCID)
            /\ metrics[i].current_trajectory_slope = ToJSON(result.trajectorySlope)
            /\ metrics[i].pain_function_correlation
                  = ToJSON(result.painFunctionCorrelation)
            /\ metrics[i].weeks_since_baseline = result.weeksSinceBaseline
            /\ metrics[i].plateau_detected = result.plateauDetected

\* C7: analytics_metrics holds at most one row for each metric_date of the
\* patient.
C7_OneRowPerPatientAndDate ==
    \A i, j \in DOMAIN metrics :
        metrics[i].metric_date = metrics[j].metric_date => i = j

\* C7 happens: a second call on a date that has a row has ended its write.
C7_Witness ==
    /\ pc = "returned"
    /\ saveOutcome = "denied"
    /\ \E i \in DOMAIN metrics : metrics[i].metric_date = upsertReq.metric_date

\* C8: calculateTimeToMCID and calculateWeeksSinceBaseline use the same one
\* baseline: the first flagged assessment, the earliest assessment when none
\* is flagged; weeksSinceBaseline and timeToMCID are both counted from it.
C8_OneBaselinePerComputation ==
    (Computed /\ Len(odiData) >= 1) =>
        LET B == StatedBaseline(odiData)
        IN  /\ MCIDBaseline(odiData) = B
            /\ WeeksBaseline(odiData) = B
            /\ (\E i \in DOMAIN odiData : odiData[i].is_baseline) => B.is_baseline
            /\ (\A i \in DOMAIN odiData : ~odiData[i].is_baseline) =>
                  \A i \in DOMAIN odiData : B.assessment_date <= odiData[i].assessment_date
            /\ result.weeksSinceBaseline
                  = (now - B.assessment_date * MsPerDay) \div MsPerWeek
            /\ result.timeToMCID # Null =>
                  \E i \in Reaching(odiData, 10) :
                      result.timeToMCID
                         = Number(odiData[i].assessment_date - B.assessment_date)

\* C8 happens: several assessments of different dates are flagged, the
\* earliest assessment is not, and both fields are numbers.
C8_Witness ==
    /\ Computed
    /\ \E i, j \in DOMAIN odiData :
          /\ odiData[i].is_baseline
          /\ odiData[j].is_baseline
          /\ odiData[1].assessment_date < odiData[i].assessment_date
          /\ odiData[i].assessment_date < odiData[j].assessment_date
    /\ ~odiData[1].is_baseline
    /\ result.timeToMCID # Null
    /\ result.weeksSinceBaseline < (now - odiData[1].assessment_date * MsPerDay) \div MsPerWeek

\* C9: the result does not depend on the order in which storage returns the
\* rows: every date-ascending arrangement of the fetched rows gives the
\* result the call built.
C9_ResultIndependentOfRowOrder ==
    Computed =>
        \A rows \in OdiOrders(odiData) :
            \A readings \in VasOrders(vasData) :
                AnalyticsResult(rows, readings, now) = result

Window(series) ==
    [i \in 1..Min({RecentWindow, Len(series)}) |->
        series[Len(series) - Min({RecentWindow, Len(series)}) + i]]

\* A JavaScript number compared with 0: -Infinity < 0 and Infinity > 0.
IsNegative(v) ==
    \/ v = NegInfinity
    \/ (v.kind = "number" /\ v.num < 0)

IsPositive(v) ==
    \/ v = PosInfinity
    \/ (v.kind = "number" /\ v.num > 0)

\* C11: over a window of at least two assessments whose scores strictly
\* decrease in series order the slope is below 0, and over a window whose
\* scores strictly increase it is above 0.
C11_SlopeSignFollowsMonotoneScores ==
    (Computed /\ Len(odiData) >= 2) =>
        LET w == Window(odiData)
        IN  /\ (\A i \in 1..(Len(w) - 1) :
                   w[i].percentage_score > w[i + 1].percentage_score)
                => IsNegative(result.trajectorySlope)
            /\ (\A i \in 1..(Len(w) - 1) :
                   w[i].percentage_score < w[i + 1].percentage_score)
                => IsPositive(result.trajectorySlope)

\* Five assessments: the scores of the last four decrease strictly, after a
\* rise from the first to the second.
C11_Witness ==
    /\ Computed
    /\ Len(odiData) = 5
    /\ odiData[1].percentage_score < odiData[2].percentage_score
    /\ \A i \in 2..4 : odiData[i].percentage_score > odiData[i + 1].percentage_score
    /\ odiData[2].assessment_date < odiData[5].assessment_date
    /\ result.trajectorySlope.kind = "number"
    /\ result.trajectorySlope.num < 0

\* The least-squares slope of score against position over a window, as the
\* quotient of the sums over all pairs of positions.
PairwiseNum(w) ==
    Sum([p \in (1..Len(w)) \X (1..Len(w)) |->
           IF p[1] < p[2]
           THEN (p[2] - p[1]) * (w[p[2]].percentage_score - w[p[1]].percentage_score)
           ELSE 0],
        (1..Len(w)) \X (1..Len(w)))

PairwiseDen(w) ==
    Sum([p \in (1..Len(w)) \X (1..Len(w)) |->
           IF p[1] < p[2] THEN (p[2] - p[1]) * (p[2] - p[1]) ELSE 0],
        (1..Len(w)) \X (1..Len(w)))

\* C12: the slope is null below two assessments; otherwise it is the
\* least-squares slope of score against position over the last
\* min(4, length) assessments, times (n - 1), divided by the weeks between the
\* first and the last date of that window (the IEEE quotient when no time
\* elapses), whatever the assessments before the window are.
C12_SlopeIsWindowSlopePerWeek ==
    Computed =>
        IF Len(odiData) < 2 THEN result.trajectorySlope = Null
        ELSE LET w == Window(odiData)
                 n == Len(w)
                 days == w[n].assessment_date - w[1].assessment_date
                 slope == result.trajectorySlope
             IN  IF days > 0
                 THEN /\ slope.kind = "number"
                      /\ slope.num * PairwiseDen(w) * days
                            = slope.den * PairwiseNum(w) * (n - 1) * DaysPerWeek
                 ELSE slope = (IF PairwiseNum(w) = 0 THEN NaN
                               ELSE IF PairwiseNum(w) > 0 THEN PosInfinity
                               ELSE NegInfinity)

\* Five assessments whose first, outside the window, would change the slope
\* were it counted.
C12_Witness ==
    /\ Computed
    /\ Len(odiData) = 5
    /\ odiData[2].assessment_date < odiData[5].assessment_date
    /\ result.trajectorySlope.kind = "number"
    /\ result.trajectorySlope.num # 0
    /\ PairwiseNum(odiData) * PairwiseDen(Window(odiData))
          # PairwiseNum(Window(odiData)) * PairwiseDen(odiData)

\* C17: weeksSinceBaseline is 0 for an empty series and otherwise the floor of
\* the weeks from the baseline date to now, and it is never negative, also
\* when the baseline is dated after now.
C17_WeeksSinceBaselineNeverNegative ==
    Computed =>
        /\ result.weeksSinceBaseline >= 0
        /\ IF Len(odiData) = 0 THEN result.weeksSinceBaseline = 0
           ELSE LET elapsed == now - getTime(StatedBaseline(odiData).assessment_date)
                IN  (elapsed - result.weeksSinceBaseline * MsPerWeek)
                       \in 0..(MsPerWeek - 1)

\* The gap in days between a date and the pain reading nearest to it.
NearestGap(date, readings) ==
    Min({Abs(readings[j].recorded_date - date) : j \in DOMAIN readings})

\* The assessments that have a pain reading within three days.
Surviving(series, readings) ==
    {i \in DOMAIN series :
        readings # << >> /\ NearestGap(series[i].assessment_date, readings) <= 3}

\* C13: the correlation is null with fewer than 3 assessments, with fewer than
\* 3 pain readings, and with fewer than 3 assessments that have a pain reading
\* within three days.
C13_CorrelationNullBelowThreePairs ==
    Computed =>
        ((\/ Len(odiData) < 3
          \/ Len(vasData) < 3
          \/ Cardinality(Surviving(odiData, vasData)) < 3)
            => result.painFunctionCorrelation = Null)

\* Three assessments and three readings of varying score and pain, of which
\* only two assessments have a reading within three days.
C13_Witness ==
    /\ Computed
    /\ Len(odiData) = 3
    /\ Len(vasData) = 3
    /\ Cardinality(Surviving(odiData, vasData)) = 2
    /\ \E i, j \in Surviving(odiData, vasData) :
          odiData[i].percentage_score # odiData[j].percentage_score
    /\ \E i, j \in DOMAIN vasData : vasData[i].pain_score # vasData[j].pain_score
    /\ result.painFunctionCorrelation = Null

\* The k-th smallest element of a set of indices.
RECURSIVE Nth(_, _)
Nth(S, k) == IF k = 1 THEN Min(S) ELSE Nth(S \ {Min(S)}, k - 1)

\* The rows of a series at the indices of K, in series order.
Restrict(series, K) == [k \in 1..Cardinality(K) |-> series[Nth(K, k)]]

\* C14: the pairs that enter the correlation are, in series order, exactly the
\* assessments with a pain reading at most 3 days away, each with ten times
\* the pain of a reading nearest to it; the assessments whose nearest reading
\* is more than 3 days away contribute nothing: without them the correlation
\* is the same.
C14_PairedWithNearestReadingWithinThreeDays ==
    (Computed /\ Len(vasData) >= 1) =>
        LET K == Surviving(odiData, vasData)
            pairs == MatchedPairs(odiData, vasData, 1)
        IN  /\ Len(pairs) = Cardinality(K)
            /\ \A k \in 1..Len(pairs) :
                  LET odi == odiData[Nth(K, k)]
                  IN  /\ pairs[k].odi = odi.percentage_score
                      /\ \E j \in DOMAIN vasData :
                            /\ Abs(vasData[j].recorded_date - odi.assessment_date)
                                 = NearestGap(odi.assessment_date, vasData)
                            /\ pairs[k].vas = 10 * vasData[j].pain_score
            /\ result.painFunctionCorrelation
                 = (IF Len(odiData) < 3 \/ Len(vasData) < 3 \/ Len(pairs) < 3 THEN Null
                    ELSE PearsonCorrelation(pairs))
            /\ (Len(odiData) > 3 /\ Len(vasData) >= 3)
                 => result.painFunctionCorrelation
                      = calculatePainFunctionCorrelation(Restrict(odiData, K), vasData)

\* Four assessments: one has its nearest reading exactly three days away and
\* enters, one has it four days away and does not; the other three give a
\* correlation that is a number.
C14_Witness ==
    /\ Computed
    /\ Len(odiData) = 4
    /\ Len(vasData) = 3
    /\ \E i \in DOMAIN odiData : NearestGap(odiData[i].assessment_date, vasData) = 3
    /\ \E i \in DOMAIN odiData : NearestGap(odiData[i].assessment_date, vasData) = 4
    /\ Cardinality(Surviving(odiData, vasData)) = 3
    /\ result.painFunctionCorrelation.kind = "number"

\* All the values of a field of the pairs are one value.
NoVariance(values) == \A i, j \in DOMAIN values : values[i] = values[j]

\* C15: with three or more matched pairs the correlation is null, not a
\* number, exactly when the assessment scores of the pairs are all equal or
\* their pain scores are all equal (the Pearson denominator is 0).
C15_NullWithoutVariance ==
    (Computed /\ Len(odiData) >= 3 /\ Len(vasData) >= 3
              /\ Len(MatchedPairs(odiData, vasData, 1)) >= 3) =>
        LET pairs == MatchedPairs(odiData, vasData, 1)
            zeroDenominator ==
                \/ NoVariance([k \in DOMAIN pairs |-> pairs[k].odi])
                \/ NoVariance([k \in DOMAIN pairs |-> pairs[k].vas])
        IN  /\ zeroDenominator => result.painFunctionCorrelation = Null
            /\ ~zeroDenominator => result.painFunctionCorrelation.kind = "number"

\* Three matched pairs of one assessment score and different pains.
C15_Witness ==
    /\ Computed
    /\ Len(odiData) = 3
    /\ Len(vasData) = 3
    /\ Len(MatchedPairs(odiData, vasData, 1)) = 3
    /\ \A i \in DOMAIN odiData : odiData[i].percentage_score = odiData[1].percentage_score
    /\ \E i, j \in DOMAIN vasData :
          /\ vasData[i].pain_score # vasData[j].pain_score
          /\ vasData[i].recorded_date # vasData[j].recorded_date
    /\ ~NoVariance([k \in 1..3 |-> MatchedPairs(odiData, vasData, 1)[k].vas])
    /\ result.painFunctionCorrelation = Null

\* The pairs lie on one rising line.
PerfectPositive(pairs) ==
    \E a, b \in DOMAIN pairs :
        /\ pairs[a].odi < pairs[b].odi
        /\ pairs[a].vas < pairs[b].vas
        /\ \A i \in DOMAIN pairs :
              (pairs[i].odi - pairs[a].odi) * (pairs[b].vas - pairs[a].vas)
                 = (pairs[i].vas - pairs[a].vas) * (pairs[b].odi - pairs[a].odi)

\* C16: a correlation that is not null lies in [-1, 1]: its square, the
\* squared numerator over the product of the two variance terms, is at most
\* 1; the pain of every pair is the reading's pain times 10; and pairs on one
\* rising line give exactly +1.
C16_CorrelationWithinUnitInterval ==
    (Computed /\ result.painFunctionCorrelation # Null) =>
        LET r == result.painFunctionCorrelation
            pairs == MatchedPairs(odiData, vasData, 1)
        IN  /\ r.kind = "number"
            /\ r.sign \in {-1, 0, 1}
            /\ r.square.num >= 0
            /\ r.square.num <= r.square.den
            /\ (r.sign = 0) <=> (r.square.num = 0)
            /\ \A k \in DOMAIN pairs :
                  \E j \in DOMAIN vasData : pairs[k].vas = 10 * vasData[j].pain_score
            /\ PerfectPositive(pairs) => (r.sign = 1 /\ r.square.num = r.square.den)

\* Three matched pairs with three different scores on one rising line.
C16_Witness ==
    /\ Computed
    /\ Len(odiData) = 3
    /\ Len(vasData) = 3
    /\ odiData[1].percentage_score < odiData[2].percentage_score
    /\ odiData[2].percentage_score < odiData[3].percentage_score
    /\ PerfectPositive(MatchedPairs(odiData, vasData, 1))
    /\ Len(MatchedPairs(odiData, vasData, 1)) = 3
    /\ result.painFunctionCorrelation.kind = "number"
    /\ result.painFunctionCorrelation.sign = 1
    /\ result.painFunctionCorrelation.square = Fraction(1, 1)

\* The call of getBenchmarkComparison has returned after its query resolved.
BenchmarkReturned == benchPc = "returned"

\* C18: against the row the query selected the score falls in exactly one of
\* four bands: at most p25 gives (25, excellent), above p25 and at most p50
\* (50, above_average), above p50 and at most p75 (75, average), above p75
\* (90, below_average); a score on a boundary falls in the lower band, so 18
\* against p25 = 13, p50 = 18, p75 = 24 gives (50, above_average); mean is the
\* row's mean score.
C18_ScoreFallsInOneOfFourBands ==
    (BenchmarkReturned /\ benchData # Null) =>
        LET score == benchArgs.patientScore
            row == benchData
            band == <<benchResult.percentile, benchResult.interpretation>>
        IN  /\ benchResult.mean = row.mean_odi_score
            /\ band \in {<<25, "excellent">>, <<50, "above_average">>,
                         <<75, "average">>, <<90, "below_average">>}
            /\ (score <= row.percentile_25) <=> (band = <<25, "excellent">>)
            /\ (row.percentile_25 < score /\ score <= row.percentile_50)
                 <=> (band = <<50, "above_average">>)
            /\ (row.percentile_50 < score /\ score <= row.percentile_75)
                 <=> (band = <<75, "average">>)
            /\ (score > row.percentile_75) <=> (band = <<90, "below_average">>)
            /\ (score = 18 /\ row.percentile_25 = 13 /\ row.percentile_50 = 18
                  /\ row.percentile_75 = 24)
                 => band = <<50, "above_average">>

\* getBenchmarkComparison(18, 'post_surgery', 24) against the seeded row of
\* week 24.
C18_Witness ==
    /\ BenchmarkReturned
    /\ benchArgs = [patientScore |-> 18, treatmentType |-> "post_surgery",
                    weeksSinceTreatment |-> 24]
    /\ benchData = BenchmarkRow("post_surgery", 24, 18, 13, 18, 24)
    /\ benchResult = [mean |-> 18, percentile |-> 50, interpretation |-> "above_average"]

\* The rows of population_benchmarks a call may use: those of its treatment
\* type at or below its cutoff.
Eligible == {r \in benchTable : /\ r.treatment_type = benchArgs.treatmentType
                               /\ r.weeks_post_treatment <= benchArgs.weeksSinceTreatment}

\* C19: the row the score is banded against is the one row of the given
\* treatment type with the greatest weeks_post_treatment not above
\* weeksSinceTreatment; no row of another type and no row of a later week is
\* used.
C19_LatestRowOfTypeAtOrBeforeCutoff ==
    (BenchmarkReturned /\ Eligible # {}) =>
        /\ benchData \in Eligible
        /\ \A r \in Eligible : r.weeks_post_treatment <= benchData.weeks_post_treatment
        /\ \A r \in benchTable :
              (r.treatment_type # benchArgs.treatmentType
                 \/ r.weeks_post_treatment > benchArgs.weeksSinceTreatment)
              => benchData # r
        /\ benchResult # Null
        /\ benchResult.mean = benchData.mean_odi_score

\* A conservative patient at week 13 of a table that holds rows of both
\* types, earlier and later ones: the conservative row of week 12 is used.
C19_Witness ==
    /\ BenchmarkReturned
    /\ ConservativeBenchmarks \subseteq benchTable
    /\ benchArgs.treatmentType = "conservative"
    /\ benchArgs.weeksSinceTreatment = 13
    /\ benchData = BenchmarkRow("conservative", 12, 36, 28, 36, 44)
    /\ benchResult.mean = 36

\* C20: without a row of the treatment type at or below weeksSinceTreatment,
\* as for week -1 or for a type that has no rows, the function returns null.
C20_NullWithoutEligibleRow ==
    (BenchmarkReturned /\ Eligible = {}) =>
        /\ benchResult = Null
        /\ benchData = Null

\* Week -1 for a post-surgery patient: the table has post-surgery rows, none
\* at or below the cutoff.
C20_Witness ==
    /\ BenchmarkReturned
    /\ benchArgs.treatmentType = "post_surgery"
    /\ benchArgs.weeksSinceTreatment = -1
    /\ \E r \in benchTable : r.treatment_type = "post_surgery"
    /\ benchResult = Null
    /\ "Error fetching benchmarks:" \in logged

\* C26: a timeToMCID that is a number is 0 or more, also when the flagged
\* baseline is not the earliest assessment: no assessment dated before the
\* baseline is reported as the achievement.
C26_TimeToMCIDNeverNegative ==
    (Computed /\ result.timeToMCID # Null) =>
        /\ result.timeToMCID.kind = "number"
        /\ result.timeToMCID.value >= 0

\* The readings at the nearest distance from a date, by position in the series.
Nearest(date, readings) ==
    {j \in DOMAIN readings :
        Abs(readings[j].recorded_date - date) = NearestGap(date, readings)}

\* The pairs of the assessments of K when each takes the first, or else the
\* last, of its nearest readings.
PairsTaking(K, firstWins) ==
    [k \in 1..Cardinality(K) |->
        LET odi == odiData[Nth(K, k)]
            N == Nearest(odi.assessment_date, vasData)
            j == IF firstWins THEN Min(N) ELSE CHOOSE x \in N : \A y \in N : y <= x
        IN  [odi |-> odi.percentage_score, vas |-> 10 * vasData[j].pain_score]]

\* C28: of two or more pain readings equally near to an assessment the one
\* that comes first in the fetched, date-ascending pain series is paired with
\* it, and the correlation is the one of the pairs so chosen.
C28_FirstOfEquallyNearReadingsIsPaired ==
    (Computed /\ Len(odiData) >= 3 /\ Len(vasData) >= 3) =>
        LET K == Surviving(odiData, vasData)
            expected == PairsTaking(K, TRUE)
        IN  /\ MatchedPairs(odiData, vasData, 1) = expected
            /\ result.painFunctionCorrelation
                 = (IF Cardinality(K) < 3 THEN Null ELSE PearsonCorrelation(expected))

\* An assessment has two equally near readings of different pain, and the
\* correlation would be another one had the later reading been taken.
C28_Witness ==
    /\ Computed
    /\ Len(odiData) >= 3
    /\ Len(vasData) = 3
    /\ Cardinality(Surviving(odiData, vasData)) >= 3
    /\ \E i \in Surviving(odiData, vasData) :
          \E j, k \in Nearest(odiData[i].assessment_date, vasData) :
             /\ j < k
             /\ vasData[j].recorded_date < vasData[k].recorded_date
             /\ vasData[j].pain_score # vasData[k].pain_score
    /\ result.painFunctionCorrelation.kind = "number"
    /\ result.painFunctionCorrelation
         = PearsonCorrelation(PairsTaking(Surviving(odiData, vasData), TRUE))
    /\ result.painFunctionCorrelation
         # PearsonCorrelation(PairsTaking(Surviving(odiData, vasData), FALSE))

\* The values a field of the result can take.
NumberOrNull(v) == v.kind \in {"null", "number", "NaN", "Infinity", "-Infinity"}

\* C22: for every pair of fetched series, empty ones included, the
\* computation of calculateAnalytics can take place and yields a result of
\* five fields; for an empty assessment series the fields are null, null,
\* null, 0 and false.
C22_NoFieldRaisesForLackOfData ==
    Computed =>
          /\ DOMAIN result = {"timeToMCID", "trajectorySlope", "painFunctionCorrelation",
                              "weeksSinceBaseline", "plateauDetected"}
          /\ NumberOrNull(result.timeToMCID)
          /\ NumberOrNull(result.trajectorySlope)
          /\ NumberOrNull(result.painFunctionCorrelation)
          /\ result.weeksSinceBaseline \in Int
          /\ result.plateauDetected \in BOOLEAN
          /\ Len(odiData) = 0 =>
                result = [timeToMCID |-> Null, trajectorySlope |-> Null,
                          painFunctionCorrelation |-> Null, weeksSinceBaseline |-> 0,
                          plateauDetected |-> FALSE]

\* No assessments and three pain readings: the result is the empty snapshot.
C22_Witness ==
    /\ Computed
    /\ odiData = << >>
    /\ Len(vasData) = 3
    /\ result.timeToMCID = Null
    /\ result.trajectorySlope = Null
    /\ result.painFunctionCorrelation = Null
    /\ result.weeksSinceBaseline = 0
    /\ result.plateauDetected = FALSE

\* C27: from the failure of the assessment fetch to the end of the call no
\* snapshot is handed to the store and analytics_metrics stays as it is.
C27_FailedCallWritesNothing ==
    [][odiFetch' = "error" =>
         /\ metrics' = metrics
         /\ upsertReq' = NoRow
         /\ saveOutcome' = "none"]_vars

\* A call fails on its assessment fetch while analytics_metrics holds the row
\* of an earlier call and the pain fetch has succeeded.
C27_Witness ==
    /\ pc = "failed"
    /\ odiFetch = "error"
    /\ vasFetch = "ok"
    /\ Len(metrics) = 1
    /\ upsertReq = NoRow

\* C23: the two fetches complete in either order without touching each
\* other's outcome; the computation starts only when both have completed, and
\* the snapshot it returns and hands to the store is the one of the two
\* fetched arrays, whichever came first.
C23_ComputationAfterBothFetchesInEitherOrder ==
    [][/\ (odiFetch = "pending" /\ odiFetch' # "pending")
            => (vasFetch' = vasFetch /\ vasData' = vasData)
       /\ (vasFetch = "pending" /\ vasFetch' # "pending")
            => (odiFetch' = odiFetch /\ odiData' = odiData)
       /\ (pc = "fetching" /\ pc' = "saving")
            => /\ odiFetch = "ok"
               /\ vasFetch \in {"ok", "error"}
               /\ odiData \in OdiOrders(odiTable)
               /\ vasData \in (IF vasFetch = "ok" THEN VasOrders(vasTable) ELSE {<< >>})
               /\ result' = AnalyticsResult(odiData, vasData, now)
               /\ upsertReq' = MetricsRow(now, result')
       /\ (pc = "saving" /\ pc' = "returned") => result' = result]_vars

\* The pain readings have arrived while the assessments are awaited.
C23_Witness ==
    /\ pc = "fetching"
    /\ vasFetch = "ok"
    /\ odiFetch = "pending"
    /\ Len(vasData) = 3
    /\ Len(odiTable) >= 2

\* C24: whenever a call has returned a snapshot, the pages display a
\* trajectory value only for a finite trajectorySlope (never the text NaN or
\* Infinity), display the days to MCID only for a number, and show the
\* placeholder or nothing for a null field.
C24_OnlyFiniteNumbersAreDisplayed ==
    pc = "returned" =>
        /\ \A card \in {TrajectoryCard(result), ProgressTrajectoryCard(result)} :
              "text" \in DOMAIN card => card.text.kind = "decimal"
        /\ result.trajectorySlope = Null =>
              /\ TrajectoryCard(result) = Hidden
              /\ "message" \in DOMAIN ProgressTrajectoryCard(result)
        /\ result.timeToMCID = Null =>
              /\ HomeMCIDCard(result) = Hidden
              /\ "message" \in DOMAIN ProgressMCIDCard(result)

\* C30: in the questionnaire, whatever answers, Next and Back presses were
\* made, currentSection is one of 0..9 and every section before it has an
\* answer; the row handed to insert and every row stored carry an answer for
\* each of the ten sections, so a submission with a section unanswered
\* inserts nothing.
C30_SectionsBeforeCurrentAnsweredAndInsertComplete ==
    /\ currentSection \in 0..9
    /\ \A s \in 0..(currentSection - 1) : s \in DOMAIN responses
    /\ assessmentData # Null => DOMAIN assessmentData.sections = 0..9
    /\ saving => DOMAIN responses = 0..9
    /\ \A i \in DOMAIN odiTable : DOMAIN odiTable[i].sections = 0..9

\* A stored assessment of a session in which a submission failed, was
\* repeated, and Back was pressed while the insert was under way.
C30_Witness ==
    /\ Len(odiTable) = 1
    /\ currentSection = 8
    /\ "Failed to save assessment. Please try again." \in alerted
    /\ odiTable[1].sections[0] = 5
    /\ odiTable[1].sections[9] = 0

\* C25: every row the questionnaire stores has each of its ten section
\* scores in 0..5 and percentage_score = (their sum) / 50 * 100, hence a
\* percentage_score between 0 and 100.
C25_PercentageIsSectionSumOverFifty ==
    \A i \in DOMAIN odiTable :
        LET row == odiTable[i]
        IN  /\ DOMAIN row.sections = 0..9
            /\ \A s \in 0..9 : row.sections[s] \in 0..5
            /\ 50 * row.percentage_score = 100 * Sum(row.sections, 0..9)
            /\ row.percentage_score \in 0..100

\* A stored assessment with five sections at 5 and five at 0: 50 percent.
C25_Witness ==
    /\ Len(odiTable) = 1
    /\ odiTable[1].percentage_score = 50
    /\ odiTable[1].sections[9] = 5
    /\ odiTable[1].sections[0] = 0

\* C29: when a load of the Home dashboard is complete and the
\* calculateAnalytics call of that load returned plateauDetected = true, the
\* insight list set at the end of the load contains the plateau insight.
C29_PlateauOfTheLoadIsAmongItsInsights ==
    (homePc = "loaded" /\ pc = "returned" /\ result.plateauDetected) =>
        \E i \in DOMAIN insights : insights[i] = "plateau"

\* C21: with the assessments, the pain readings and the clock unchanged, a
\* second calculateAnalytics call that follows a first one whose result the
\* page holds returns the same five values (both calls having fetched the
\* pain readings); the row the first call wrote plays no part.
C21_SecondCallReturnsTheSameValues ==
    (/\ reloads >= 1
     /\ loads.analytics = "pending"
     /\ pc = "returned"
     /\ homeAnalytics # Null
     /\ "Error fetching VAS scores:" \notin logged) =>
        result = homeAnalytics

====
